---- MODULE Spec2Model ----
(***************************************************************************)
(* chan_discord: asterisk_wrapper.c / asterisk_wrapper.h.                  *)
(*                                                                         *)
(* The binding shim exposes four non-inlined functions, each of which      *)
(* forwards to one function of the host framework (Asterisk).  The model   *)
(* has two layers:                                                         *)
(*   - the shim (rust_ao2_alloc, rust_ao2_ref, rust_ast_frdup,             *)
(*     rust_ast_rtp_engine_register), translated from asterisk_wrapper.c;  *)
(*   - the host framework (ao2_alloc_options, ao2_ref, ast_frdup,          *)
(*     ast_rtp_engine_register, ast_frfree) whose code is not part of the  *)
(*     repository and which is modelled from the contract the              *)
(*     specification gives for it.                                         *)
(* Every shim operator reports, beside the new framework state and the     *)
(* value it returns, the framework calls it made (a call log), so that     *)
(* "one call, arguments unmodified, result passed back" is something the   *)
(* model can get wrong.                                                    *)
(***************************************************************************)
EXTENDS Integers, Sequences, FiniteSets, TLC

VARIABLES
  fw,       \* framework state the shim's calls act on
  direct,   \* framework state under the same calls made directly (no shim)
  last,     \* the last call the caller made: op, args, returned value, call log
  run,      \* per object: the "+1 then decrements" run in progress (history)
  dups,     \* per frame handle: the frame it was duplicated from, or NULL (history)
  pc,       \* per thread: position in a concurrent rust_ao2_ref call
  targ,     \* per thread: the shim's parameters (obj, delta), its stack frame
  held,     \* per thread: references to the shared object the thread owns
  count0,   \* concurrent scenario: reference count at the start
  applied   \* concurrent scenario: sum of the deltas applied so far

vars == <<fw, direct, last, run, dups, pc, targ, held, count0, applied>>

---------------------------------------------------------------------------
(* Bounds of the model *)

MaxObjs == 1       \* reference-counted objects ever allocated
MaxFrames == 3     \* frames ever created
MaxRef == 3        \* cap on a reference count
NThreads == 2      \* threads of the concurrent scenario

(* Input samples *)

Sizes == {1, 2}                    \* data_size > 0
Options == {0, 1}                  \* recognised option flags
Deltas == {-1, 0, 1}               \* signed delta
FrameData == {"voice", "dtmf"}     \* frame contents
EngineNames == {"discord", "asterisk"}
Engines == [name : EngineNames, wf : BOOLEAN]   \* wf: well-formed descriptor

Handles == 1..MaxObjs
FrameHandles == 1..MaxFrames
Threads == 1..NThreads

NULL == 0            \* the null pointer
Void == <<>>         \* a function of return type void returns no value
Val(v) == <<v>>      \* a returned value

---------------------------------------------------------------------------
(* Host framework (contract of the specification) *)

NoObj == [st |-> "none", refcount |-> 0, size |-> 0, dtor |-> FALSE, dtorRuns |-> 0]
NoFrame == [st |-> "none", data |-> ""]

FwInit == [objs |-> [h \in Handles |-> NoObj],
           frames |-> [f \in FrameHandles |-> NoFrame],
           engines |-> {}]

HasFreeObj(st) == \E h \in Handles : st.objs[h].st = "none"
FreshObj(st) == CHOOSE h \in Handles : /\ st.objs[h].st = "none"
                                       /\ \A g \in Handles : g < h => st.objs[g].st # "none"
HasFrame(st) == \E f \in FrameHandles : st.frames[f].st # "none"
HasFreeFrame(st) == \E f \in FrameHandles : st.frames[f].st = "none"
FreshFrame(st) == CHOOSE f \in FrameHandles : /\ st.frames[f].st = "none"
                                              /\ \A g \in FrameHandles : g < f => st.frames[g].st # "none"

\* Allocate a reference-counted object: a new handle with count 1, data_size
\* bytes of backing memory, the destructor and the options; NULL on
\* allocation failure (mem_ok is the allocator's answer).
ao2_alloc_options(st, data_size, destructor, options, mem_ok) ==
  IF ~mem_ok
  THEN [st |-> st, ret |-> NULL]
  ELSE LET h == FreshObj(st)
       IN [st |-> [st EXCEPT !.objs[h] =
                      [st |-> "live", refcount |-> 1, size |-> data_size,
                       dtor |-> destructor, dtorRuns |-> 0]],
           ret |-> h]

\* Adjust the reference count of a live object by delta, atomically.  When
\* the count reaches zero the destructor (if any) runs and the memory is
\* released.  The result is the new count.
ao2_ref(st, obj, delta) ==
  LET o == st.objs[obj]
      n == o.refcount + delta
  IN IF n = 0
     THEN [st |-> [st EXCEPT !.objs[obj] =
                      [o EXCEPT !.st = "freed", !.refcount = 0, !.size = 0,
                                !.dtorRuns = IF o.dtor THEN @ + 1 ELSE @]],
           ret |-> n]
     ELSE [st |-> [st EXCEPT !.objs[obj].refcount = n], ret |-> n]

\* Duplicate a frame: a new, independently owned frame with the content of
\* the original; NULL when the duplication fails.
ast_frdup(st, frame, mem_ok) ==
  IF ~mem_ok
  THEN [st |-> st, ret |-> NULL]
  ELSE LET f == FreshFrame(st)
       IN [st |-> [st EXCEPT !.frames[f] =
                      [st |-> "live", data |-> st.frames[frame].data]],
           ret |-> f]

\* Register an RTP engine: nonzero for a malformed descriptor or a name that
\* is already in the registry, otherwise the descriptor joins the registry
\* and the result is 0.
ast_rtp_engine_register(st, engine) ==
  IF ~engine.wf \/ (\E e \in st.engines : e.name = engine.name)
  THEN [st |-> st, ret |-> -1]
  ELSE [st |-> [st EXCEPT !.engines = @ \cup {engine}], ret |-> 0]

\* The caller's own frame operations (made on the framework directly).
frame_new(st, data) ==
  [st EXCEPT !.frames[FreshFrame(st)] = [st |-> "live", data |-> data]]
frame_write(st, frame, data) == [st EXCEPT !.frames[frame].data = data]
ast_frfree(st, frame) == [st EXCEPT !.frames[frame] = [st |-> "freed", data |-> ""]]

---------------------------------------------------------------------------
(* The shim: asterisk_wrapper.c *)

Call(fn, args, ret) == [fn |-> fn, args |-> args, ret |-> ret]

\* Mutants of the shim (plausible slips in asterisk_wrapper.c), for checking
\* that the properties below depend on the code.

\* data_size and options swapped in the forwarded call
rust_ao2_alloc_swapped(st, data_size, destructor, options, mem_ok) ==
  LET r == ao2_alloc_options(st, options, destructor, data_size, mem_ok)
  IN [st |-> r.st, ret |-> Val(r.ret),
      calls |-> <<Call("ao2_alloc_options", <<options, destructor, data_size>>, r.ret)>>]

\* takes a reference of its own on the new object
rust_ao2_alloc_extra_ref(st, data_size, destructor, options, mem_ok) ==
  LET r == ao2_alloc_options(st, data_size, destructor, options, mem_ok)
      q == IF r.ret = NULL THEN r ELSE ao2_ref(r.st, r.ret, 1)
  IN [st |-> q.st, ret |-> Val(r.ret),
      calls |-> <<Call("ao2_alloc_options", <<data_size, destructor, options>>, r.ret)>>]

\* returns the count it got from ao2_ref
rust_ao2_ref_returns_count(st, obj, delta) ==
  LET r == ao2_ref(st, obj, delta)
  IN [st |-> r.st, ret |-> Val(r.ret),
      calls |-> <<Call("ao2_ref", <<obj, delta>>, r.ret)>>]

\* empty body: ao2_ref is never called
rust_ao2_ref_no_call(st, obj, delta) ==
  [st |-> st, ret |-> Void, calls |-> <<>>]

\* the sign of delta is lost
rust_ao2_ref_negated(st, obj, delta) ==
  LET r == ao2_ref(st, obj, -delta)
  IN [st |-> r.st, ret |-> Void,
      calls |-> <<Call("ao2_ref", <<obj, -delta>>, r.ret)>>]

\* delta is ignored: always takes a reference
rust_ao2_ref_always_incr(st, obj, delta) ==
  LET r == ao2_ref(st, obj, 1)
  IN [st |-> r.st, ret |-> Void,
      calls |-> <<Call("ao2_ref", <<obj, 1>>, r.ret)>>]

\* falls back to the original frame when the duplication fails
rust_ast_frdup_fallback(st, frame, mem_ok) ==
  LET r == ast_frdup(st, frame, mem_ok)
  IN [st |-> r.st, ret |-> Val(IF r.ret = NULL THEN frame ELSE r.ret),
      calls |-> <<Call("ast_frdup", <<frame>>, r.ret)>>]

\* returns the frame it was given, without duplicating it
rust_ast_frdup_same(st, frame, mem_ok) ==
  [st |-> st, ret |-> Val(IF mem_ok THEN frame ELSE NULL), calls |-> <<>>]

\* the status of the registration is dropped
rust_ast_rtp_engine_register_ret0(st, engine) ==
  LET r == ast_rtp_engine_register(st, engine)
  IN [st |-> r.st, ret |-> Val(0),
      calls |-> <<Call("ast_rtp_engine_register", <<engine>>, r.ret)>>]

\* the status is negated (!status)
rust_ast_rtp_engine_register_negated(st, engine) ==
  LET r == ast_rtp_engine_register(st, engine)
  IN [st |-> r.st, ret |-> Val(IF r.ret = 0 THEN 1 ELSE 0),
      calls |-> <<Call("ast_rtp_engine_register", <<engine>>, r.ret)>>]

\* void* rust_ao2_alloc(size_t data_size, ao2_destructor_fn destructor, unsigned int options)
rust_ao2_alloc(st, data_size, destructor, options, mem_ok) ==
  LET r == ao2_alloc_options(st, data_size, destructor, options, mem_ok)
  IN [st |-> r.st, ret |-> Val(r.ret),
      calls |-> <<Call("ao2_alloc_options", <<data_size, destructor, options>>, r.ret)>>]

\* void rust_ao2_ref(void* obj, int delta)
rust_ao2_ref(st, obj, delta) ==
  LET r == ao2_ref(st, obj, delta)
  IN [st |-> r.st, ret |-> Void,
      calls |-> <<Call("ao2_ref", <<obj, delta>>, r.ret)>>]

\* struct ast_frame* rust_ast_frdup(struct ast_frame* frame)
rust_ast_frdup(st, frame, mem_ok) ==
  LET r == ast_frdup(st, frame, mem_ok)
  IN [st |-> r.st, ret |-> Val(r.ret),
      calls |-> <<Call("ast_frdup", <<frame>>, r.ret)>>]

\* int rust_ast_rtp_engine_register(struct ast_rtp_engine *engine)
rust_ast_rtp_engine_register(st, engine) ==
  LET r == ast_rtp_engine_register(st, engine)
  IN [st |-> r.st, ret |-> Val(r.ret),
      calls |-> <<Call("ast_rtp_engine_register", <<engine>>, r.ret)>>]

---------------------------------------------------------------------------
(* The caller: a sequence of calls from one thread *)

NoRun == [base |-> 0, decs |-> 0, on |-> FALSE]

Called(op, args, r) == [op |-> op, args |-> args, ret |-> r.ret, calls |-> r.calls]

Init ==
  /\ fw = FwInit
  /\ direct = FwInit
  /\ last = [op |-> "init", args |-> <<>>, ret |-> Void, calls |-> <<>>]
  /\ run = [h \in Handles |-> NoRun]
  /\ dups = [f \in FrameHandles |-> NULL]
  /\ pc = [t \in Threads |-> "idle"]
  /\ targ = [t \in Threads |-> <<>>]
  /\ held = [t \in Threads |-> 0]
  /\ count0 = 0
  /\ applied = 0

ConcVars == <<pc, targ, held, count0, applied>>

RustAo2Alloc(data_size, destructor, options, mem_ok) ==
  /\ mem_ok => HasFreeObj(fw)
  /\ LET r == rust_ao2_alloc(fw, data_size, destructor, options, mem_ok)
     IN /\ fw' = r.st
        /\ last' = Called("alloc", <<data_size, destructor, options>>, r)
  /\ direct' = ao2_alloc_options(direct, data_size, destructor, options, mem_ok).st
  /\ UNCHANGED <<dups, ConcVars>>

\* The run of object obj after an adjustment by delta at count n: a +1
\* starts a run with base n, a -1 extends the run in progress.
RunAfter(r, n, delta) ==
  CASE delta = 1 -> [base |-> n, decs |-> 0, on |-> TRUE]
    [] delta = -1 /\ r.on -> [r EXCEPT !.decs = @ + 1]
    [] OTHER -> r

\* The caller passes a valid handle (a live object): the shim checks nothing,
\* and an adjustment of anything else is undefined.
RustAo2Ref(obj, delta) ==
  /\ fw.objs[obj].st = "live"
  /\ fw.objs[obj].refcount + delta <= MaxRef
  /\ LET r == rust_ao2_ref(fw, obj, delta)
     IN /\ fw' = r.st
        /\ last' = Called("ref", <<obj, delta>>, r)
  /\ direct' = ao2_ref(direct, obj, delta).st
  /\ UNCHANGED <<dups, ConcVars>>

\* The caller passes a frame it owns (non-null, live).
RustAstFrdup(frame, mem_ok) ==
  /\ fw.frames[frame].st = "live"
  /\ mem_ok => HasFreeFrame(fw)
  /\ LET r == rust_ast_frdup(fw, frame, mem_ok)
     IN /\ fw' = r.st
        /\ last' = Called("frdup", <<frame>>, r)
  /\ direct' = ast_frdup(direct, frame, mem_ok).st
  /\ UNCHANGED <<run, ConcVars>>

RustAstRtpEngineRegister(engine) ==
  /\ LET r == rust_ast_rtp_engine_register(fw, engine)
     IN /\ fw' = r.st
        /\ last' = Called("register", <<engine>>, r)
  /\ direct' = ast_rtp_engine_register(direct, engine).st
  /\ UNCHANGED <<run, dups, ConcVars>>

CallerNewFrame(data) ==
  /\ HasFreeFrame(fw)
  /\ fw' = frame_new(fw, data)
  /\ direct' = frame_new(direct, data)
  /\ last' = [op |-> "frame_new", args |-> <<data>>, ret |-> Void, calls |-> <<>>]
  /\ UNCHANGED <<run, ConcVars>>

CallerWriteFrame(frame, data) ==
  /\ fw.frames[frame].st = "live"
  /\ fw' = frame_write(fw, frame, data)
  /\ direct' = frame_write(direct, frame, data)
  /\ last' = [op |-> "frame_write", args |-> <<frame, data>>, ret |-> Void, calls |-> <<>>]
  /\ UNCHANGED <<run, ConcVars>>

CallerFrFree(frame) ==
  /\ fw.frames[frame].st = "live"
  /\ fw' = ast_frfree(fw, frame)
  /\ direct' = ast_frfree(direct, frame)
  /\ last' = [op |-> "frfree", args |-> <<frame>>, ret |-> Void, calls |-> <<>>]
  /\ UNCHANGED <<run, ConcVars>>

\* History: the frame each duplicate was made from.
TrackDups ==
  dups' = IF last'.op = "frdup" /\ last'.ret # Void /\ last'.ret[1] \in FrameHandles
          THEN [dups EXCEPT ![last'.ret[1]] = last'.args[1]]
          ELSE dups

\* History: the run of the object adjusted.
TrackRun(obj, delta) ==
  run' = [run EXCEPT ![obj] = RunAfter(@, fw.objs[obj].refcount, delta)]

\* Any sequence of calls of the four shim operations; the caller makes the
\* first frame, every other frame is a duplicate.
Next ==
  \/ \E s \in Sizes, d \in BOOLEAN, o \in Options, m \in BOOLEAN :
       RustAo2Alloc(s, d, o, m) /\ UNCHANGED run
  \/ \E h \in Handles, d \in Deltas : RustAo2Ref(h, d) /\ UNCHANGED run
  \/ \E f \in FrameHandles, m \in BOOLEAN : RustAstFrdup(f, m) /\ UNCHANGED dups
  \/ \E e \in Engines : RustAstRtpEngineRegister(e)
  \/ \E d \in FrameData : CallerNewFrame(d) /\ ~HasFrame(fw) /\ UNCHANGED dups

Spec == Init /\ [][Next]_vars

\* Reference counting alone, with the run history.
NextRun ==
  \/ \E s \in Sizes, d \in BOOLEAN, o \in Options, m \in BOOLEAN :
       RustAo2Alloc(s, d, o, m) /\ UNCHANGED run
  \/ \E h \in Handles, d \in Deltas : RustAo2Ref(h, d) /\ TrackRun(h, d)

SpecRun == Init /\ [][NextRun]_vars

\* Frames alone, with the duplication history.
NextFrame ==
  \/ \E f \in FrameHandles, m \in BOOLEAN : RustAstFrdup(f, m) /\ TrackDups
  \/ \E d \in FrameData : CallerNewFrame(d) /\ TrackDups
  \/ \E f \in FrameHandles, d \in FrameData : CallerWriteFrame(f, d) /\ TrackDups
  \/ \E f \in FrameHandles : CallerFrFree(f) /\ TrackDups

SpecFrame == Init /\ [][NextFrame]_vars

---------------------------------------------------------------------------
(* Concurrent reference counting: several threads adjust the count of one   *)
(* shared object through the shim.  A thread adjusts only while it owns a    *)
(* reference (the handle is valid for the whole call); an adjustment by -1   *)
(* gives one of the thread's references up.  A call is three steps: entry    *)
(* (the parameters are on the thread's stack), the framework's atomic        *)
(* ao2_ref, and the return.                                                  *)

Shared == 1     \* handle of the shared object

RECURSIVE SumHeld(_, _)
SumHeld(h, ts) == IF ts = {} THEN 0
                  ELSE LET t == CHOOSE x \in ts : TRUE
                       IN h[t] + SumHeld(h, ts \ {t})

InitConc ==
  /\ \E c \in 1..MaxRef, d \in BOOLEAN, s \in Sizes :
       /\ count0 = c
       /\ fw = [FwInit EXCEPT !.objs[Shared] =
                  [st |-> "live", refcount |-> c, size |-> s, dtor |-> d, dtorRuns |-> 0]]
  /\ direct = fw
  /\ held \in [Threads -> 0..MaxRef]
  /\ SumHeld(held, Threads) = count0
  /\ applied = 0
  /\ pc = [t \in Threads |-> "idle"]
  /\ targ = [t \in Threads |-> <<>>]
  /\ last = [op |-> "init", args |-> <<>>, ret |-> Void, calls |-> <<>>]
  /\ run = [h \in Handles |-> NoRun]
  /\ dups = [f \in FrameHandles |-> NULL]

Pending == Cardinality({u \in Threads : pc[u] = "in_shim" /\ targ[u][2] = 1})

ThreadEnter(t, delta) ==
  /\ pc[t] = "idle"
  /\ held[t] >= 1
  /\ delta = 1 => fw.objs[Shared].refcount + Pending < MaxRef
  /\ pc' = [pc EXCEPT ![t] = "in_shim"]
  /\ targ' = [targ EXCEPT ![t] = <<Shared, delta>>]
  /\ held' = [held EXCEPT ![t] = IF delta = -1 THEN @ - 1 ELSE @]
  /\ UNCHANGED <<fw, direct, last, run, dups, count0, applied>>

ThreadCall(t) ==
  /\ pc[t] = "in_shim"
  /\ LET r == rust_ao2_ref(fw, targ[t][1], targ[t][2])
     IN /\ fw' = r.st
        /\ last' = Called("ref", targ[t], r)
  /\ direct' = ao2_ref(direct, targ[t][1], targ[t][2]).st
  /\ applied' = applied + targ[t][2]
  /\ held' = [held EXCEPT ![t] = IF targ[t][2] = 1 THEN @ + 1 ELSE @]
  /\ pc' = [pc EXCEPT ![t] = "returning"]
  /\ UNCHANGED <<targ, run, dups, count0>>

ThreadReturn(t) ==
  /\ pc[t] = "returning"
  /\ pc' = [pc EXCEPT ![t] = "idle"]
  /\ targ' = [targ EXCEPT ![t] = <<>>]
  /\ UNCHANGED <<fw, direct, last, run, dups, held, count0, applied>>

NextConc ==
  \/ \E t \in Threads, d \in Deltas : ThreadEnter(t, d)
  \/ \E t \in Threads : ThreadCall(t)
  \/ \E t \in Threads : ThreadReturn(t)

SpecConc == InitConc /\ [][NextConc]_vars

---------------------------------------------------------------------------
(* Properties *)

ShimOps == {"alloc", "ref", "frdup", "register"}
ShimFn(op) == CASE op = "alloc" -> "ao2_alloc_options"
                [] op = "ref" -> "ao2_ref"
                [] op = "frdup" -> "ast_frdup"
                [] op = "register" -> "ast_rtp_engine_register"

C2_PassThrough ==
  last.op \in {"alloc", "frdup", "register"} =>
    /\ Len(last.calls) = 1
    /\ last.calls[1].fn = ShimFn(last.op)
    /\ last.calls[1].args = last.args
    /\ last.ret = Val(last.calls[1].ret)
    /\ last.op = "alloc" /\ last.ret # Val(NULL) => fw.objs[last.ret[1]].st = "live"
    /\ last.op = "frdup" /\ last.ret # Val(NULL) => last.ret[1] # last.args[1]
    /\ last.op = "register" /\ last.ret = Val(0) => last.args[1] \in fw.engines

C2_Witness ==
  /\ last.op = "frdup"
  /\ last.ret = Val(NULL)
  /\ last.calls[1].ret = NULL

\* C3: adjusting a handle whose count is 1 by -1 through the shim runs the
\* object's destructor exactly once and frees the object; a freed object
\* stays freed, its destructor never runs again.
C3_LastRefDestroys ==
  /\ [][\A o \in Handles :
          (last'.op = "ref" /\ last'.args = <<o, -1>> /\ fw.objs[o].st = "live"
             /\ fw.objs[o].refcount = 1)
          => /\ fw'.objs[o].st = "freed"
             /\ fw'.objs[o].dtorRuns = IF fw.objs[o].dtor THEN 1 ELSE 0]_vars
  /\ [][\A o \in Handles :
          fw.objs[o].st = "freed" => fw'.objs[o] = fw.objs[o]]_vars

C3_Witness ==
  /\ last.op = "ref"
  /\ last.args[2] = -1
  /\ fw.objs[last.args[1]].st = "freed"
  /\ fw.objs[last.args[1]].dtor
  /\ fw.objs[last.args[1]].dtorRuns = 1

\* C4: for a handle with count N >= 1, after one adjustment by +1 followed
\* by k adjustments by -1 the count is N + 1 - k; it is 0, and the
\* destructor has run, only when k = N + 1.
C4_BalancedRun ==
  \A o \in Handles :
    run[o].on =>
      LET n == run[o].base + 1 - run[o].decs
      IN /\ run[o].base >= 1
         /\ n >= 0
         /\ n > 0 => /\ fw.objs[o].st = "live"
                     /\ fw.objs[o].refcount = n
                     /\ fw.objs[o].dtorRuns = 0
         /\ n = 0 => /\ fw.objs[o].st = "freed"
                     /\ run[o].decs = run[o].base + 1

C4_Witness ==
  \E o \in Handles : /\ run[o].on
                     /\ run[o].decs = run[o].base + 1
                     /\ fw.objs[o].st = "freed"

\* C5 (as stated): for all valid inputs rust_ao2_alloc returns a non-null
\* handle whose backing memory is exactly size bytes.
C5_NeverNull ==
  last.op = "alloc" =>
    /\ last.ret # Val(NULL)
    /\ fw.objs[last.ret[1]].size = last.args[1]

\* C5 (amended): for all valid inputs rust_ao2_alloc returns either NULL
\* (allocation failure: nothing is allocated) or a non-null handle of a new
\* live object whose backing memory is exactly size bytes.
C5_NullOrSized ==
  [][last'.op = "alloc" =>
       IF last'.ret = Val(NULL)
       THEN fw' = fw
       ELSE /\ Len(last'.ret) = 1
            /\ last'.ret[1] \in Handles
            /\ fw.objs[last'.ret[1]].st = "none"
            /\ fw'.objs[last'.ret[1]].st = "live"
            /\ fw'.objs[last'.ret[1]].size = last'.args[1]]_vars

C5_Witness ==
  /\ last.op = "alloc"
  /\ last.ret # Val(NULL)
  /\ last.args[1] = 2
  /\ fw.objs[last.ret[1]].size = 2

\* C6: a successful rust_ast_frdup returns a new handle, distinct from the
\* original, of a live frame whose content is the original's at the time of
\* the call, and leaves the original as it was; destroying a duplicate
\* leaves the frame it was made from as it was (live, content unchanged).
C6_IndependentDuplicate ==
  /\ [][(last'.op = "frdup" /\ last'.ret # Val(NULL)) =>
          /\ Len(last'.ret) = 1
          /\ last'.ret[1] \in FrameHandles
          /\ last'.ret[1] # last'.args[1]
          /\ fw.frames[last'.ret[1]].st = "none"
          /\ fw'.frames[last'.ret[1]] =
               [st |-> "live", data |-> fw.frames[last'.args[1]].data]
          /\ fw'.frames[last'.args[1]] = fw.frames[last'.args[1]]]_vars
  /\ [][(last'.op = "frfree" /\ dups[last'.args[1]] # NULL) =>
          fw'.frames[dups[last'.args[1]]] = fw.frames[dups[last'.args[1]]]]_vars

C6_Witness ==
  /\ last.op = "frfree"
  /\ dups[last.args[1]] # NULL
  /\ fw.frames[last.args[1]].st = "freed"
  /\ fw.frames[dups[last.args[1]]].st = "live"

\* C7: registering an engine whose name is the name of an engine registered
\* before it returns a nonzero status.
C7_DuplicateNameRefused ==
  [][(last'.op = "register"
        /\ \E e \in fw.engines : e.name = last'.args[1].name)
       => last'.ret # Val(0)]_vars

C7_Witness ==
  /\ last.op = "register"
  /\ last.args[1].wf
  /\ last.ret = Val(-1)
  /\ \E e \in fw.engines : e.name = last.args[1].name

\* C8: registering a well-formed descriptor whose name is not in the
\* registry returns 0, and the engine is in the registry afterwards.
C8_NewEngineRegistered ==
  [][(last'.op = "register" /\ last'.args[1].wf
        /\ ~ \E e \in fw.engines : e.name = last'.args[1].name)
       => /\ last'.ret = Val(0)
          /\ last'.args[1] \in fw'.engines]_vars

C8_Witness ==
  /\ last.op = "register"
  /\ last.ret = Val(0)
  /\ Cardinality(fw.engines) = 2

\* C9: each shim operation makes exactly one call, of its framework
\* function, with its own arguments; the framework state after any sequence
\* of shim calls is the state after the same sequence of direct framework
\* calls; allocate, adjust and duplicate leave the engine registry unchanged
\* (allocate and adjust the frames, duplicate the objects), register leaves
\* every object and frame unchanged.
C9_ShimIsTransparent ==
  /\ [](fw = direct)
  /\ [](last.op \in ShimOps =>
          /\ Len(last.calls) = 1
          /\ last.calls[1].fn = ShimFn(last.op)
          /\ last.calls[1].args = last.args)
  /\ [][/\ last'.op \in {"alloc", "ref", "frdup"} => fw'.engines = fw.engines
        /\ last'.op \in {"alloc", "ref"} => fw'.frames = fw.frames
        /\ last'.op = "frdup" => fw'.objs = fw.objs
        /\ last'.op = "register" => fw'.objs = fw.objs /\ fw'.frames = fw.frames]_vars

C9_Witness ==
  /\ last.op = "ref"
  /\ fw = direct
  /\ fw.engines # {}
  /\ Cardinality({f \in FrameHandles : fw.frames[f].st = "live"}) >= 2
  /\ \E o \in Handles : fw.objs[o].st = "freed"

\* C10: under every interleaving of the threads' adjustments no adjustment
\* is lost (the count is the initial count plus the sum of the deltas
\* applied), the destructor has not run while that count is above 0, and it
\* has run exactly once when the count has come to 0.
C10_NoLostAdjustment ==
  LET o == fw.objs[Shared]
      n == count0 + applied
  IN /\ n >= 0
     /\ n > 0 => o.st = "live" /\ o.refcount = n /\ o.dtorRuns = 0
     /\ n = 0 => o.st = "freed" /\ o.dtorRuns = (IF o.dtor THEN 1 ELSE 0)

C10_Witness ==
  /\ \E t, u \in Threads : /\ t # u
                           /\ pc[t] = "returning" /\ targ[t][2] = -1
                           /\ pc[u] = "returning" /\ targ[u][2] = -1
  /\ fw.objs[Shared].st = "freed"
  /\ fw.objs[Shared].dtorRuns = 1
  /\ count0 = 2

====
